---- MODULE Spec2Model ----
(***************************************************************************)
(* dataclass_mage.utils.typing_compat: classification, decomposition and   *)
(* resolution of type annotations, over the two strategies the module      *)
(* selects between at import time (PY310_OR_ABOVE).                        *)
(*                                                                         *)
(* An annotation object is identified by a sequence of strings: its head   *)
(* (the class, the special form, the alias's unsubscripted form) followed  *)
(* by its arguments.  <<"int">> is the class int, <<"typing.List","int">>  *)
(* is List[int], <<"str:","int","|","str">> is the text 'int | str' and    *)
(* <<"ForwardRef:","int">> is ForwardRef('int').  The heap objs maps each  *)
(* identity to the attributes the module reads from the object.            *)
(***************************************************************************)
EXTENDS Integers, Sequences, FiniteSets, TLC

VARIABLES
    host,            \* the runtime the module is imported on
    pc,              \* where the module body stands: "typed_dicts", "select", "ready"
    loopIdx,         \* the index of the loop over PyTypedDicts
    TypedDictTypes,  \* the module's list of structural-record metaclasses
    bound,           \* the strategy each name of the PY310_OR_ABOVE branch is bound to
    objs,            \* the heap: identity -> attributes of the annotation object
    last,            \* the call made last, with its outcome
    earlier          \* a call made before it (SpecRepeated)

vars == <<host, pc, loopIdx, TypedDictTypes, bound, objs, last, earlier>>

\* Longest chain of alternatives ('X | Y | ...', Union[X, Y, ...]) in a text.
MaxAlts == 2

(***************************************************************************)
(* The host runtime.  py37 and py39 are the oldest and the newest runtime  *)
(* of the legacy strategy, py310 stands for 3.10 and later.                *)
(***************************************************************************)
Hosts == {"py37", "py39", "py310"}

\* constants.PY310_OR_ABOVE: the one capability flag the module branches on.
PY310_OR_ABOVE(h) == h = "py310"

\* The private names of the host's typing module that _is_base_generic reads.
\* typing._Protocol exists on 3.7 only, typing._VariadicGenericAlias up to 3.8.
typing_has(h, name) ==
    CASE name = "_Protocol" -> h = "py37"
      [] name = "_VariadicGenericAlias" -> h = "py37"
      [] OTHER -> TRUE

NoAttr == <<"<no attribute>">>

Ret(v) == [kind |-> "ret", val |-> v]
Raise(e) == [kind |-> "raise", val |-> e]

RECURSIVE Dedup(_)
\* The order-preserving duplicate elimination of the host's Union constructor.
Dedup(s) ==
    IF s = <<>> THEN <<>>
    ELSE LET init == Dedup(SubSeq(s, 1, Len(s) - 1))
             x == s[Len(s)]
         IN IF \E i \in 1..Len(init) : init[i] = x THEN init ELSE Append(init, x)

Range(s) == {s[i] : i \in 1..Len(s)}

Tail2(s) == SubSeq(s, 2, Len(s))

(***************************************************************************)
(* type_def (not part of the sources at hand): the structural-record        *)
(* helpers, the literal marker and the kinds of deferred reference.         *)
(***************************************************************************)
\* type_def.PyTypedDicts: the known structural-record helpers of the host.
PyTypedDicts(h) ==
    IF h = "py37" THEN <<"typing_extensions.TypedDict">>
    ELSE <<"typing.TypedDict", "typing_extensions.TypedDict">>

\* type(RealPyTypedDict) for a class made from the helper.
MetaclassOf(helper) ==
    IF helper = "typing.TypedDict" THEN "typing._TypedDictMeta"
    ELSE "typing_extensions._TypedDictMeta"

\* type_def.PyLiteral
PyLiteral == <<"typing.Literal">>

\* type_def.FREF.__constraints__: str and PyForwardRef.
FREF_constraints == {"str", "typing.ForwardRef"}

(***************************************************************************)
(* The attributes of an annotation object, from its identity.              *)
(***************************************************************************)
SpecialForms == {"typing.Union", "typing.Optional", "typing.ClassVar",
                 "typing.NoReturn", "typing.Literal"}

\* The _name of a special form of the typing module.
SpecialFormName(n) ==
    CASE n = "typing.Union" -> "Union"
      [] n = "typing.Optional" -> "Optional"
      [] n = "typing.ClassVar" -> "ClassVar"
      [] n = "typing.NoReturn" -> "NoReturn"
      [] OTHER -> "Literal"

BlankObj(id) ==
    [id |-> id, classes |-> {"type"}, meta |-> "type", origin |-> NoAttr,
     nparams |-> 0, name |-> "", hasAnn |-> FALSE, ann |-> <<>>,
     hasKeys |-> FALSE, required |-> {}, optional |-> {},
     args |-> <<>>, text |-> <<>>]

NumTypeVars(s) == Cardinality({i \in 1..Len(s) : s[i] = "~T"})

\* A subscripted alias of the typing module: typing._GenericAlias.
TypingAlias(id, origin) ==
    [BlankObj(id) EXCEPT !.classes = {"typing._GenericAlias"},
                         !.meta = "typing._GenericAlias",
                         !.origin = origin,
                         !.nparams = NumTypeVars(Tail2(id)),
                         !.args = Tail2(id)]

\* The bare container aliases (List, Tuple): typing._GenericAlias with the
\* container's own type variables up to 3.8, typing._SpecialGenericAlias
\* (no subclass of typing._GenericAlias) from 3.9.
BareAlias(h, id, origin, variadic) ==
    IF h = "py37"
    THEN [BlankObj(id) EXCEPT
            !.classes = IF variadic
                        THEN {"typing._GenericAlias", "typing._VariadicGenericAlias"}
                        ELSE {"typing._GenericAlias"},
            !.meta = IF variadic THEN "typing._VariadicGenericAlias"
                     ELSE "typing._GenericAlias",
            !.origin = origin,
            !.nparams = IF variadic THEN 0 ELSE 1]
    ELSE [BlankObj(id) EXCEPT !.classes = {"typing._SpecialGenericAlias"},
                              !.meta = "typing._SpecialGenericAlias",
                              !.origin = origin]

Atom(h, id) ==
    LET n == id[1] IN
    CASE n \in SpecialForms ->
           [BlankObj(id) EXCEPT !.classes = {"typing._SpecialForm"},
                                !.meta = "typing._SpecialForm",
                                !.name = SpecialFormName(n)]
      [] n = "typing.List" -> BareAlias(h, id, <<"builtins.list">>, FALSE)
      [] n = "typing.Tuple" -> BareAlias(h, id, <<"builtins.tuple">>, TRUE)
      [] n = "NT" -> [BlankObj(id) EXCEPT !.hasAnn = TRUE, !.ann = <<"a:int", "b:str">>]
      [] n = "TD" -> [BlankObj(id) EXCEPT !.meta = MetaclassOf(PyTypedDicts(h)[1]),
                                          !.hasAnn = TRUE,
                                          !.ann = <<"a:int", "b:int", "c:str">>,
                                          !.hasKeys = TRUE,
                                          !.required = {"a", "b"},
                                          !.optional = {"c"}]
      \* a class without annotations of its own: type.__annotations__ yields
      \* an empty table from 3.10, the lookup fails before
      [] n = "P" -> [BlankObj(id) EXCEPT !.hasAnn = (h = "py310")]
      [] OTHER -> BlankObj(id)

Describe(h, id) ==
    LET n == id[1] IN
    CASE n = "str:" ->
           [BlankObj(id) EXCEPT !.classes = {"str"}, !.meta = "str", !.text = Tail2(id)]
      [] n = "ForwardRef:" ->
           [BlankObj(id) EXCEPT !.classes = {"typing.ForwardRef"},
                                !.meta = "typing.ForwardRef", !.text = Tail2(id)]
      [] Len(id) = 1 -> Atom(h, id)
      [] n = "typing.List" -> TypingAlias(id, <<"builtins.list">>)
      [] n = "typing.Union" -> TypingAlias(id, <<"typing.Union">>)
      [] n = "typing.Generic" -> TypingAlias(id, <<"typing.Generic">>)
      [] n = "typing.Literal" -> [TypingAlias(id, PyLiteral) EXCEPT !.nparams = 0]
      [] n = "typing.Annotated" ->
           [TypingAlias(id, <<id[2]>>) EXCEPT
              !.classes = {"typing._GenericAlias", "_AnnotatedAlias"},
              !.meta = "_AnnotatedAlias"]
      [] n = "builtins.list" ->
           [BlankObj(id) EXCEPT !.classes = {"types.GenericAlias"},
                                !.meta = "types.GenericAlias",
                                !.origin = <<"builtins.list">>,
                                !.args = Tail2(id)]
      [] n = "types.UnionType" ->
           [BlankObj(id) EXCEPT !.classes = {"types.UnionType"},
                                !.meta = "types.UnionType",
                                !.args = Tail2(id)]
      [] OTHER -> BlankObj(id)

isinstance(o, classes) == o.classes \cap classes # {}

(***************************************************************************)
(* Namespaces and the host's evaluator of a deferred reference             *)
(* (typing._eval_type on a ForwardRef: eval(code, globals, locals)).       *)
(* A namespace is a function from names to object identities.              *)
(***************************************************************************)
EmptyNs == [n \in {} |-> <<>>]

Builtins ==
    [n \in {"int", "str", "list"} |->
        IF n = "list" THEN <<"builtins.list">> ELSE <<n>>]

\* The declaring classes and sys.modules[cls.__module__].__dict__ of each:
\* one module imports the typing names it uses, the other imports nothing.
DeclaringClasses == {"ClsTyping", "ClsBare"}

ModuleGlobals(cls) ==
    IF cls = "ClsTyping"
    THEN [n \in {"Union", "List"} |->
            IF n = "Union" THEN <<"typing.Union">> ELSE <<"typing.List">>]
    ELSE EmptyNs

\* locals: [none |-> TRUE/FALSE, table |-> namespace]; with locals None the
\* evaluator uses the globals for both.
NoneLocals == [none |-> TRUE, table |-> EmptyNs]

Lookup(name, globals, locals) ==
    CASE name \in DOMAIN locals.table -> Ret(locals.table[name])
      [] name \in DOMAIN globals -> Ret(globals[name])
      [] name \in DOMAIN Builtins -> Ret(Builtins[name])
      [] OTHER -> Raise("NameError")

\* The names of toks that are no punctuation, in order.
NamesOf(toks) ==
    SelectSeq(toks, LAMBDA t : t \notin {"|", "[", "]", ","})

RECURSIVE LookupAll(_, _, _)
\* Left to right; the first name that cannot be found raises.
LookupAll(names, globals, locals) ==
    IF names = <<>> THEN Ret(<<>>)
    ELSE LET first == Lookup(Head(names), globals, locals) IN
         IF first.kind = "raise" THEN first
         ELSE LET rest == LookupAll(Tail(names), globals, locals) IN
              IF rest.kind = "raise" THEN rest
              ELSE Ret(<<first.val>> \o rest.val)

\* ids of one-element objects -> the flat argument list of an alias
Flat(vals) == [i \in 1..Len(vals) |-> vals[i][1]]

\* typing.Union[args]: duplicates removed, a single alternative collapses.
MakeUnion(vals) ==
    LET d == Dedup(Flat(vals)) IN
    IF Len(d) = 1 THEN Ret(<<d[1]>>) ELSE Ret(<<"typing.Union">> \o d)

\* X | Y on classes: types.UnionType from 3.10, TypeError before.
BinOr(h, vals) ==
    IF ~PY310_OR_ABOVE(h) THEN Raise("TypeError")
    ELSE LET d == Dedup(Flat(vals)) IN
         IF Len(d) = 1 THEN Ret(<<d[1]>>) ELSE Ret(<<"types.UnionType">> \o d)

\* head[args]
Subscript(h, head, vals) ==
    CASE head = <<"typing.Union">> -> MakeUnion(vals)
      [] head = <<"typing.List">> -> Ret(<<"typing.List">> \o Flat(vals))
      [] head = <<"builtins.list">> /\ h # "py37" -> Ret(<<"builtins.list">> \o Flat(vals))
      [] OTHER -> Raise("TypeError")

\* eval(code, globals, locals) of the texts of this model: a name, a chain
\* of '|' between names, or name[name, ...].
EvalText(h, toks, globals, locals) ==
    LET vals == LookupAll(NamesOf(toks), globals, locals) IN
    IF vals.kind = "raise" THEN vals
    ELSE CASE Len(toks) = 1 -> Ret(vals.val[1])
           [] toks[2] = "|" -> BinOr(h, vals.val)
           [] OTHER -> Subscript(h, vals.val[1], Tail(vals.val))

\* typing._eval_type(ref, globals, locals): the placeholder's text evaluated.
\* Anything that is no placeholder (and holds none) comes back as it is.
typing_eval_type(h, ref, globals, locals) ==
    IF ref[1] = "ForwardRef:" THEN EvalText(h, Tail2(ref), globals, locals)
    ELSE Ret(ref)

(***************************************************************************)
(* The texts of deferred references.                                       *)
(***************************************************************************)
AltNames == {"int", "str", "Nope"}

Chains(lo) == UNION {[1..k -> AltNames] : k \in lo..MaxAlts}

RECURSIVE Interleave(_, _)
Interleave(c, sep) ==
    IF Len(c) <= 1 THEN c
    ELSE <<Head(c), sep>> \o Interleave(Tail(c), sep)

\* 'X | Y | ...' (a single name when the chain has one element)
BarText(c) == Interleave(c, "|")

\* 'Union[X, Y, ...]'
UnionText(c) == <<"Union", "[">> \o Interleave(c, ",") \o <<"]">>

SubscriptTexts == {<<"list", "[", "int", "]">>, <<"List", "[", "int", "]">>}

Texts ==
    {BarText(c) : c \in Chains(1)} \cup {UnionText(c) : c \in Chains(2)}
      \cup SubscriptTexts

\* string_conv.repl_or_with_union (not part of the sources at hand): every
\* 'X | Y | ...' becomes 'Union[X, Y, ...]', any other text is left alone.
repl_or_with_union(toks) ==
    IF "|" \in Range(toks) THEN UnionText(NamesOf(toks)) ELSE toks

\* type_def.PyForwardRef(text, is_argument=False)
PyForwardRef(toks) == <<"ForwardRef:">> \o toks

(***************************************************************************)
(* The module's import-time bindings.                                      *)
(***************************************************************************)
\* The names the PY310_OR_ABOVE branch binds, in the order it binds them.
Primitives ==
    <<"_get_args", "_BASE_GENERIC_TYPES", "_TYPING_LOCALS",
      "_process_forward_annotation", "_get_origin">>

\* The branch taken at import.
Strategy(h) == IF PY310_OR_ABOVE(h) THEN "A" ELSE "B"

\* The table _get_typing_locals() returns; the module never calls it.
_get_typing_locals ==
    [n \in {"Union", "tuple", "list", "dict", "set", "frozenset", "type",
            "deque", "defaultdict", "OrderedDict", "Counter", "ChainMap"} |->
        CASE n = "Union" -> <<"typing.Union">>
          [] n = "tuple" -> <<"typing.Tuple">>
          [] n = "list" -> <<"typing.List">>
          [] n = "dict" -> <<"typing.Dict">>
          [] n = "set" -> <<"typing.Set">>
          [] n = "frozenset" -> <<"typing.FrozenSet">>
          [] n = "type" -> <<"typing.Type">>
          [] n = "deque" -> <<"typing.Deque">>
          [] n = "defaultdict" -> <<"typing.DefaultDict">>
          [] n = "OrderedDict" -> <<"typing.OrderedDict">>
          [] n = "Counter" -> <<"typing.Counter">>
          [] OTHER -> <<"typing.ChainMap">>]

BASE_GENERIC_TYPES_A ==
    {"typing._GenericAlias", "typing._SpecialForm", "types.GenericAlias",
     "types.UnionType"}

BASE_GENERIC_TYPES_B == {"typing._GenericAlias", "typing._SpecialForm"}

\* Faulty variant: the special forms left out of the generic shapes.
BASE_GENERIC_TYPES_noforms == {"typing._GenericAlias", "types.GenericAlias", "types.UnionType"}

_BASE_GENERIC_TYPES ==
    IF bound["_BASE_GENERIC_TYPES"] = "A" THEN BASE_GENERIC_TYPES_A
    ELSE BASE_GENERIC_TYPES_B

TYPING_LOCALS_A == NoneLocals

\* Faulty variant: the legacy locals without the union marker.
TYPING_LOCALS_B_empty == [none |-> FALSE, table |-> EmptyNs]

TYPING_LOCALS_B ==
    [none |-> FALSE, table |-> [n \in {"Union"} |-> <<"typing.Union">>]]

_TYPING_LOCALS ==
    IF bound["_TYPING_LOCALS"] = "A" THEN TYPING_LOCALS_A ELSE TYPING_LOCALS_B

process_forward_annotation_A(base_type) == PyForwardRef(base_type)

\* Faulty variant: the legacy placeholder built from the text as it is.
process_forward_annotation_B_raw(base_type) == PyForwardRef(base_type)

process_forward_annotation_B(base_type) ==
    PyForwardRef(repl_or_with_union(base_type))

_process_forward_annotation(base_type) ==
    IF bound["_process_forward_annotation"] = "A"
    THEN process_forward_annotation_A(base_type)
    ELSE process_forward_annotation_B(base_type)

\* cls.__origin__
getattr_origin(o) ==
    IF o.origin = NoAttr THEN Raise("AttributeError") ELSE Ret(o.origin)

get_origin_A(o, raise_) ==
    IF isinstance(o, {"types.UnionType"}) THEN Ret(<<"typing.Union">>)
    ELSE LET r == getattr_origin(o) IN
         IF r.kind = "raise" THEN (IF raise_ THEN r ELSE Ret(o.id)) ELSE r

get_origin_B(o, raise_) ==
    LET r == getattr_origin(o) IN
    IF r.kind = "raise" THEN (IF raise_ THEN r ELSE Ret(o.id)) ELSE r

\* Faulty variant: the origin found last is kept and handed to the next caller.
get_origin_cached(o, raise_) ==
    IF last.fn = "get_origin" /\ last.res.kind = "ret" THEN last.res
    ELSE IF bound["_get_origin"] = "A" THEN get_origin_A(o, raise_)
    ELSE get_origin_B(o, raise_)

_get_origin(o, raise_) ==
    IF bound["_get_origin"] = "A" THEN get_origin_A(o, raise_)
    ELSE get_origin_B(o, raise_)

\* typing.get_args / typing_extensions.get_args: the alias's arguments, the
\* empty tuple for anything that is no subscripted alias.
_get_args(o) == Ret(o.args)

(***************************************************************************)
(* The module's functions.  A flag a caller may omit is "omitted", "True"  *)
(* or "False"; Arg gives the value the parameter then has.                 *)
(***************************************************************************)
Flags == {"omitted", "True", "False"}

Arg(flag, default) == IF flag = "omitted" THEN default ELSE flag = "True"

None == <<"None">>

get_keys_for_typed_dict(o) ==
    IF o.hasKeys THEN Ret(<<o.required, o.optional>>) ELSE Raise("AttributeError")

_is_annotated(o) == Ret(isinstance(o, {"_AnnotatedAlias"}))

_is_base_generic(o) ==
    IF isinstance(o, {"typing._GenericAlias"})
    THEN IF ~typing_has(host, "_Protocol") THEN Raise("AttributeError")
         ELSE IF o.origin \in {<<"typing.Generic">>, <<"typing._Protocol">>} THEN Ret(FALSE)
         ELSE IF ~typing_has(host, "_VariadicGenericAlias") THEN Raise("AttributeError")
         ELSE IF isinstance(o, {"typing._VariadicGenericAlias"}) THEN Ret(TRUE)
         ELSE Ret(o.nparams > 0)
    ELSE IF isinstance(o, {"typing._SpecialForm"})
    THEN Ret(o.name \in {"ClassVar", "Union", "Optional"})
    ELSE Ret(FALSE)

\* Faulty variant: the missing attribute is not caught.
is_literal_uncaught(o) ==
    LET r == getattr_origin(o) IN
    IF r.kind = "raise" THEN r ELSE Ret(r.val = PyLiteral)

is_literal(o) ==
    LET r == getattr_origin(o) IN
    IF r.kind = "raise" THEN Ret(FALSE) ELSE Ret(r.val = PyLiteral)

_get_named_tuple_field_types(o, raise_) ==
    IF o.hasAnn THEN Ret(o.ann)
    ELSE IF raise_ THEN Raise("AttributeError") ELSE Ret(None)

is_typed_dict(o) == Ret(o.meta \in Range(TypedDictTypes))

is_generic(o) == Ret(isinstance(o, _BASE_GENERIC_TYPES))

is_base_generic(o) == _is_base_generic(o)

get_args(o) == _get_args(o)

\* Faulty variant: the strict flag as the default.
get_origin_strict(o, flag) == _get_origin(o, Arg(flag, TRUE))

get_origin(o, flag) == _get_origin(o, Arg(flag, FALSE))

\* Faulty variant: the permissive flag as the default.
get_named_tuple_field_types_permissive(o, flag) ==
    _get_named_tuple_field_types(o, Arg(flag, FALSE))

get_named_tuple_field_types(o, flag) ==
    _get_named_tuple_field_types(o, Arg(flag, TRUE))

is_annotated(o) == _is_annotated(o)

\* What a resolver call did: its outcome, how often eval_forward_ref ran,
\* and the placeholder and the locals handed to the evaluator.
eval_forward_ref(o, cls) ==
    LET ref == IF isinstance(o, {"str"})
               THEN _process_forward_annotation(o.text) ELSE o.id
        base_globals == ModuleGlobals(cls)
    IN [res |-> typing_eval_type(host, ref, base_globals, _TYPING_LOCALS),
        evals |-> 1, ref |-> ref, locals |-> _TYPING_LOCALS]

\* Faulty variant: the check of the argument's kind is missing.
eval_forward_ref_always(o, base_cls) == eval_forward_ref(o, base_cls)

eval_forward_ref_if_needed(o, base_cls) ==
    IF isinstance(o, FREF_constraints) THEN eval_forward_ref(o, base_cls)
    ELSE [res |-> Ret(o.id), evals |-> 0, ref |-> <<>>, locals |-> NoneLocals]

(***************************************************************************)
(* The annotation objects of a run.                                        *)
(***************************************************************************)
TypeIds(h) ==
    {<<"int">>, <<"P">>, <<"NT">>, <<"TD">>,
     <<"typing.List">>, <<"typing.Tuple">>,
     <<"typing.Union">>, <<"typing.NoReturn">>,
     <<"typing.List", "int">>, <<"typing.List", "~T">>,
     <<"typing.Union", "int", "str">>, <<"typing.Generic", "~T">>,
     <<"typing.Literal", "42">>, <<"typing.Annotated", "int", "meta">>}
      \cup (IF h = "py37" THEN {} ELSE {<<"builtins.list", "int">>})
      \cup (IF PY310_OR_ABOVE(h) THEN {<<"types.UnionType", "int", "str">>} ELSE {})

TextIds == {<<"str:">> \o t : t \in Texts}

\* Placeholders built by a caller, without the module's rewriting.
RefIds ==
    {PyForwardRef(<<n>>) : n \in AltNames} \cup {PyForwardRef(<<"int", "|", "str">>)}

\* Everything a resolution can return.
ResolvedIds(h) ==
    LET outcomes ==
          {typing_eval_type(h, PyForwardRef(t), ModuleGlobals(c), l) :
             t \in Texts \cup {repl_or_with_union(x) : x \in Texts},
             c \in DeclaringClasses,
             l \in {TYPING_LOCALS_A, TYPING_LOCALS_B}}
    IN {r.val : r \in {x \in outcomes : x.kind = "ret"}}

\* The heap holds the annotation objects; a text is an immutable string,
\* described by its value alone.
HeapIds(h) == TypeIds(h) \cup RefIds \cup ResolvedIds(h)

Obj(id) == IF id \in DOMAIN objs THEN objs[id] ELSE Describe(host, id)

\* What the classification and extraction functions are called on: every
\* object of the heap and the texts of a single name.
ClassifiedIds == DOMAIN objs \cup {<<"str:", n>> : n \in AltNames}

\* What the resolver is called on.
ResolverIds == DOMAIN objs \cup TextIds

NoCall ==
    [fn |-> "", arg |-> <<>>, cls |-> "", flag |-> "omitted", res |-> Ret(<<>>),
     evals |-> 0, ref |-> <<>>, locals |-> NoneLocals]

NoPrev == [fn |-> "", arg |-> <<>>, flag |-> "omitted", res |-> Ret(<<>>)]

Init ==
    /\ host \in Hosts
    /\ pc = "typed_dicts"
    /\ loopIdx = 1
    /\ TypedDictTypes = <<>>
    /\ bound = [p \in Range(Primitives) |-> "unbound"]
    /\ objs = [id \in HeapIds(host) |-> Describe(host, id)]
    /\ last = NoCall
    /\ earlier = NoPrev

(***************************************************************************)
(* Import: the module body, top to bottom.                                 *)
(***************************************************************************)
\* for PyTypedDict in PyTypedDicts: one pass of the loop
ImportTypedDict ==
    /\ pc = "typed_dicts"
    /\ loopIdx <= Len(PyTypedDicts(host))
    /\ TypedDictTypes' = Append(TypedDictTypes, MetaclassOf(PyTypedDicts(host)[loopIdx]))
    /\ loopIdx' = loopIdx + 1
    /\ pc' = IF loopIdx = Len(PyTypedDicts(host)) THEN "select" ELSE pc
    /\ UNCHANGED <<host, bound, objs, last, earlier>>

\* Faulty variant: one assignment sits in the wrong branch.
BindTo_mixed(name) == IF name = "_get_origin" THEN "B" ELSE Strategy(host)

\* The strategy the next assignment of the branch binds its name to.
BindTo(name) == Strategy(host)

\* if PY310_OR_ABOVE: ... else: ...  one assignment of the branch taken
ImportBind ==
    /\ pc = "select"
    /\ LET i == CHOOSE k \in 1..Len(Primitives) :
                  /\ bound[Primitives[k]] = "unbound"
                  /\ \A j \in 1..(k - 1) : bound[Primitives[j]] # "unbound"
       IN /\ bound' = [bound EXCEPT ![Primitives[i]] = BindTo(Primitives[i])]
          /\ pc' = IF i = Len(Primitives) THEN "ready" ELSE pc
    /\ UNCHANGED <<host, loopIdx, TypedDictTypes, objs, last, earlier>>

(***************************************************************************)
(* Calls.  The module's functions can be called once its import is over.   *)
(***************************************************************************)
Callable == pc = "ready"

Returned(fn, id, cls, flag, out) ==
    /\ last' = [fn |-> fn, arg |-> id, cls |-> cls, flag |-> flag, res |-> out.res,
                evals |-> out.evals, ref |-> out.ref, locals |-> out.locals]
    /\ UNCHANGED <<host, pc, loopIdx, TypedDictTypes, bound, objs, earlier>>

Plain(r) == [res |-> r, evals |-> 0, ref |-> <<>>, locals |-> NoneLocals]

Call_is_generic ==
    /\ Callable
    /\ \E id \in ClassifiedIds : Returned("is_generic", id, "", "omitted", Plain(is_generic(Obj(id))))

Call_is_base_generic ==
    /\ Callable
    /\ \E id \in ClassifiedIds :
         Returned("is_base_generic", id, "", "omitted", Plain(is_base_generic(Obj(id))))

Call_is_annotated ==
    /\ Callable
    /\ \E id \in ClassifiedIds :
         Returned("is_annotated", id, "", "omitted", Plain(is_annotated(Obj(id))))

Call_is_literal ==
    /\ Callable
    /\ \E id \in ClassifiedIds :
         Returned("is_literal", id, "", "omitted", Plain(is_literal(Obj(id))))

Call_is_typed_dict ==
    /\ Callable
    /\ \E id \in ClassifiedIds :
         Returned("is_typed_dict", id, "", "omitted", Plain(is_typed_dict(Obj(id))))

Call_get_args ==
    /\ Callable
    /\ \E id \in ClassifiedIds :
         Returned("get_args", id, "", "omitted", Plain(get_args(Obj(id))))

Call_get_origin ==
    /\ Callable
    /\ \E id \in ClassifiedIds, flag \in Flags :
         Returned("get_origin", id, "", flag, Plain(get_origin(Obj(id), flag)))

Call_get_named_tuple_field_types ==
    /\ Callable
    /\ \E id \in ClassifiedIds, flag \in Flags :
         Returned("get_named_tuple_field_types", id, "", flag,
                  Plain(get_named_tuple_field_types(Obj(id), flag)))

Call_get_keys_for_typed_dict ==
    /\ Callable
    /\ \E id \in ClassifiedIds :
         Returned("get_keys_for_typed_dict", id, "", "omitted",
                  Plain(get_keys_for_typed_dict(Obj(id))))

\* eval_forward_ref takes a text or a placeholder (FREF).
Call_eval_forward_ref ==
    /\ Callable
    /\ \E id \in ResolverIds, cls \in DeclaringClasses :
         /\ isinstance(Obj(id), FREF_constraints)
         /\ Returned("eval_forward_ref", id, cls, "omitted", eval_forward_ref(Obj(id), cls))

Call_eval_forward_ref_if_needed ==
    /\ Callable
    /\ \E id \in ResolverIds, cls \in DeclaringClasses :
         Returned("eval_forward_ref_if_needed", id, cls, "omitted",
                  eval_forward_ref_if_needed(Obj(id), cls))

Next ==
    \/ ImportTypedDict
    \/ ImportBind
    \/ Call_is_generic
    \/ Call_is_base_generic
    \/ Call_is_annotated
    \/ Call_is_literal
    \/ Call_is_typed_dict
    \/ Call_get_args
    \/ Call_get_origin
    \/ Call_get_named_tuple_field_types
    \/ Call_get_keys_for_typed_dict
    \/ Call_eval_forward_ref
    \/ Call_eval_forward_ref_if_needed

Spec == Init /\ [][Next]_vars

(***************************************************************************)
(* The classification and extraction functions under repetition: earlier   *)
(* remembers one call made at some point before the last one, with any     *)
(* number of calls in between.                                             *)
(***************************************************************************)
PureFns ==
    {"is_generic", "is_base_generic", "is_annotated", "is_literal",
     "is_typed_dict", "get_origin", "get_args"}

PureCall(fn, o, flag) ==
    CASE fn = "is_generic" -> is_generic(o)
      [] fn = "is_base_generic" -> is_base_generic(o)
      [] fn = "is_annotated" -> is_annotated(o)
      [] fn = "is_literal" -> is_literal(o)
      [] fn = "is_typed_dict" -> is_typed_dict(o)
      [] fn = "get_origin" -> get_origin(o, flag)
      [] OTHER -> get_args(o)

\* The annotations the repeated calls are made on.
RepeatedIds ==
    ClassifiedIds \cap
      {<<"int">>, <<"TD">>, <<"typing.Union">>, <<"typing.List">>,
       <<"typing.List", "int">>, <<"typing.Literal", "42">>,
       <<"typing.Annotated", "int", "meta">>, <<"types.UnionType", "int", "str">>,
       <<"str:", "int">>}

Brief(c) == [fn |-> c.fn, arg |-> c.arg, flag |-> c.flag, res |-> c.res]

CallPure ==
    /\ Callable
    /\ \E fn \in PureFns, id \in RepeatedIds, flag \in Flags, keep \in BOOLEAN :
         /\ fn # "get_origin" => flag = "omitted"
         /\ last' = [fn |-> fn, arg |-> id, cls |-> "", flag |-> flag,
                     res |-> PureCall(fn, Obj(id), flag),
                     evals |-> 0, ref |-> <<>>, locals |-> NoneLocals]
         /\ earlier' = IF keep THEN earlier ELSE Brief(last)
    /\ UNCHANGED <<host, pc, loopIdx, TypedDictTypes, bound, objs>>

NextRepeated == ImportTypedDict \/ ImportBind \/ CallPure

SpecRepeated == Init /\ [][NextRepeated]_vars

(***************************************************************************)
(* Properties.                                                             *)
(***************************************************************************)
IsCall(fn) == last.fn = fn

Returns(v) == last.res.kind = "ret" /\ last.res.val = v

Raises == last.res.kind = "raise"

HasNoOrigin(o) == o.origin = NoAttr

\* C1 as stated: for every annotation without a recorded origin, under
\* either strategy, get_origin without the strict flag returns the annotation
\* itself, get_origin with the strict flag fails, and is_generic is false.
C1_AsStated ==
    /\ IsCall("get_origin") /\ HasNoOrigin(Obj(last.arg)) =>
          IF last.flag = "True" THEN Raises ELSE Returns(last.arg)
    /\ IsCall("is_generic") /\ HasNoOrigin(Obj(last.arg)) => Returns(FALSE)

\* C1 amended: for every annotation without a recorded origin that is no
\* native compact union, get_origin without the strict flag returns the
\* annotation itself and with the strict flag fails with the missing-attribute
\* failure; for a native compact union it returns the union marker under
\* either flag; is_generic is false for every annotation without a recorded
\* origin that is neither a special form nor a native compact union.
C1_Amended ==
    /\ IsCall("get_origin") /\ HasNoOrigin(Obj(last.arg)) =>
          IF isinstance(Obj(last.arg), {"types.UnionType"}) /\ bound["_get_origin"] = "A"
          THEN Returns(<<"typing.Union">>)
          ELSE IF last.flag = "True"
               THEN Raises /\ last.res.val = "AttributeError"
               ELSE Returns(last.arg)
    /\ IsCall("is_generic") /\ HasNoOrigin(Obj(last.arg))
         /\ ~isinstance(Obj(last.arg), {"typing._SpecialForm", "types.UnionType"})
         => Returns(FALSE)

\* get_origin(int) without the flag has returned int.
C1_Witness ==
    /\ IsCall("get_origin") /\ last.arg = <<"int">> /\ last.flag = "omitted"
    /\ Returns(<<"int">>)

C3_Passthrough ==
    IsCall("eval_forward_ref_if_needed") =>
      /\ ~isinstance(Obj(last.arg), FREF_constraints) =>
            Returns(last.arg) /\ last.evals = 0
      /\ last.res.kind = "ret" =>
            \A cls \in DeclaringClasses :
              LET again == eval_forward_ref_if_needed(Obj(last.res.val), cls) IN
              again.res = Ret(last.res.val) /\ again.evals = 0

\* A resolved union passed to eval_forward_ref_if_needed has come back.
C3_Witness ==
    /\ IsCall("eval_forward_ref_if_needed")
    /\ last.arg = <<"typing.Union", "int", "str">>
    /\ Returns(last.arg) /\ last.evals = 0

LowercaseAliases ==
    {"list", "dict", "set", "tuple", "frozenset", "type",
     "OrderedDict", "defaultdict", "Counter", "ChainMap"}

\* C4: under the legacy strategy the locals eval_forward_ref hands to the
\* evaluator map every lowercase container name and mapping alias to its
\* generic equivalent, so that the text 'list[int]' resolves to List[int].
C4_LegacyLocalsTable ==
    /\ last.evals = 1 /\ bound["_TYPING_LOCALS"] = "B" =>
          \A n \in LowercaseAliases :
            /\ n \in DOMAIN last.locals.table
            /\ last.locals.table[n] = _get_typing_locals[n]
    /\ IsCall("eval_forward_ref") /\ bound["_TYPING_LOCALS"] = "B"
         /\ last.arg = <<"str:", "list", "[", "int", "]">>
         => Returns(<<"typing.List", "int">>)

Resolvable(n, cls) == n \in DOMAIN ModuleGlobals(cls) \cup DOMAIN Builtins

\* C5: under the legacy strategy eval_forward_ref on the text 'X | Y' gives
\* what it gives on the text 'Union[X, Y]', for every declaring class, and
\* with resolvable names that is the union of X and Y, whether or not the
\* declaring class's module defines the union marker.
C5_LightEqualsHeavy ==
    IsCall("eval_forward_ref") /\ bound["_process_forward_annotation"] = "B" =>
      \A c \in Chains(2) :
        last.arg = <<"str:">> \o BarText(c) =>
          /\ last.res = eval_forward_ref(Obj(<<"str:">> \o UnionText(c)), last.cls).res
          /\ (\A i \in 1..Len(c) : Resolvable(c[i], last.cls)) =>
                last.res = MakeUnion([i \in 1..Len(c) |-> <<c[i]>>])

\* 'int | str' resolved for a class whose module defines no Union.
C5_Witness ==
    /\ IsCall("eval_forward_ref") /\ bound["_process_forward_annotation"] = "B"
    /\ last.cls = "ClsBare" /\ last.arg = <<"str:", "int", "|", "str">>
    /\ Returns(<<"typing.Union", "int", "str">>)

AllBoundTo(s) == \A p \in Range(Primitives) : bound[p] = s

Initialized ==
    /\ AllBoundTo("A") \/ AllBoundTo("B")
    /\ Len(TypedDictTypes) = Len(PyTypedDicts(host))

\* C6: no call runs before the strategy selection and the metaclass set are
\* complete; from then on all primitives are bound to one strategy, and no
\* step changes the bindings or the metaclass set.
C6_Barrier ==
    /\ [](last # NoCall => pc = "ready")
    /\ [](pc = "ready" => Initialized)
    /\ [][Initialized =>
            /\ bound' = bound
            /\ TypedDictTypes' = TypedDictTypes
            /\ pc' = "ready"]_vars

\* A call after the import: a structural record recognised by its metaclass.
C6_Witness ==
    /\ pc = "ready" /\ IsCall("is_typed_dict") /\ last.arg = <<"TD">> /\ Returns(TRUE)

\* The decision rule of is_base_generic, as the claim words it.
BaseGenericRule(o) ==
    IF isinstance(o, {"typing._GenericAlias"})
    THEN IF o.origin \in {<<"typing.Generic">>, <<"typing._Protocol">>} THEN FALSE
         ELSE IF isinstance(o, {"typing._VariadicGenericAlias"}) THEN TRUE
         ELSE o.nparams > 0
    ELSE IF isinstance(o, {"typing._SpecialForm"})
    THEN o.name \in {"ClassVar", "Union", "Optional"}
    ELSE FALSE

\* C7: is_base_generic gives the value of the decision rule for every
\* annotation; the bare container form gives true and the fully
\* parameterized form gives false.
C7_DecisionRule ==
    IsCall("is_base_generic") =>
      /\ Returns(BaseGenericRule(Obj(last.arg)))
      /\ last.arg = <<"typing.List">> => Returns(TRUE)
      /\ last.arg = <<"typing.List", "int">> => Returns(FALSE)

\* C8: is_literal never raises; it is true exactly when the annotation has
\* an origin and the origin is the literal marker, and then get_origin gives
\* the literal marker.
C8_IsLiteralTotal ==
    IsCall("is_literal") =>
      /\ ~Raises
      /\ last.res.val = (~HasNoOrigin(Obj(last.arg)) /\ Obj(last.arg).origin = PyLiteral)
      /\ last.res.val =>
            \A flag \in Flags : get_origin(Obj(last.arg), flag) = Ret(PyLiteral)

\* is_literal(Literal[42]) has returned true.
C8_Witness ==
    /\ IsCall("is_literal") /\ last.arg = <<"typing.Literal", "42">> /\ Returns(TRUE)

SameCall(a, b) == a.fn = b.fn /\ a.arg = b.arg /\ a.flag = b.flag

\* C9: a call of a classification or extraction function changes neither
\* the annotation objects nor the import-time state, and gives what an
\* earlier call with the same input gave, whatever was called in between.
C9_Pure ==
    /\ [](earlier.fn # "" /\ SameCall(earlier, last) => earlier.res = last.res)
    /\ [][pc = "ready" =>
            /\ objs' = objs
            /\ bound' = bound
            /\ TypedDictTypes' = TypedDictTypes]_vars

\* get_origin(List[int]) repeated, with the earlier call remembered.
C9_Witness ==
    /\ earlier.fn = "get_origin" /\ SameCall(earlier, last)
    /\ last.arg = <<"typing.List", "int">> /\ Returns(<<"builtins.list">>)

\* C10: an annotation is_base_generic calls a base generic is one is_generic
\* calls generic: its class is among the active _BASE_GENERIC_TYPES.
C10_BaseImpliesGeneric ==
    IsCall("is_base_generic") /\ last.res.kind = "ret" /\ last.res.val =>
      /\ is_generic(Obj(last.arg)) = Ret(TRUE)
      /\ isinstance(Obj(last.arg), _BASE_GENERIC_TYPES)

\* is_base_generic(Union) has returned true.
C10_Witness ==
    /\ IsCall("is_base_generic") /\ last.arg = <<"typing.Union">> /\ Returns(TRUE)

====
